---- MODULE Spec2Model ----
(***************************************************************************)
(* lnkshortener: the record store (log-backed FileStore and relational     *)
(* DBStore behind the URLStore interface), the creation and resolution     *)
(* services on top of it, and the batch-deletion pipeline.                 *)
(*                                                                         *)
(* Strings are modelled as strings: a short URL is BaseURL + "/" + id, a   *)
(* record UUID is strconv.Itoa(Counter) or the generated id, so that the   *)
(* string comparisons of the code are decided the way the code decides     *)
(* them.  generateID (8 bytes of crypto/rand, base64) is modelled as a     *)
(* source of fresh ids: the n-th call returns generateID(n).               *)
(***************************************************************************)
EXTENDS Integers, Sequences, FiniteSets, TLC

\* ---------------------------------------------------------------- bounds
\* generateID calls in one behaviour
MaxCodes == 2
\* entries the log file may hold before the model stops writing to it
MaxLog == 4
\* items in one BatchShorten request
MaxBatch == 2

\* ids handed to one batch deletion
MaxIds == 2
\* ids beyond the number of workers in the longest list handed to one deletion
MaxExtraIds == 1
\* CreateShortURL calls running at the same time
MaxSavers == 2
\* BatchUpdateDeleteFlag calls of one batch deletion that the storage fails
MaxFailures == 1
\* batch-delete requests served at the same time
MaxRequests == 2

\* ------------------------------------------------------------- constants
\* numWorkers of fanOut
NumWorkers == 5
BaseURL == "http://localhost:8080"
Users == {"u1", "u2"}
Origs == {"https://ya.ru", "https://practicum.yandex.ru"}
CorrelationIDs == {"a", "b"}
Backends == {"file", "db"}

generateID(n) == "id" \o ToString(n)
IDs == {generateID(n) : n \in 1..MaxCodes}
\* ids a client may ask for: the generated ones and one never generated
RequestIDs == IDs \cup {"nonexistentID"}
ShortURLOf(id) == BaseURL \o "/" \o id
Itoa(n) == ToString(n)

VARIABLES
  backend,    \* which URLStore the service was handed at start
  fileLog,    \* FileStore: the entries of the log file, in file order
  urls,       \* DBStore: the rows of table urls
  urlsSeq,    \* DBStore: last value of the id SERIAL sequence
  Counter,    \* logic.Counter
  genCount,   \* number of generateID calls so far
  created,    \* history: creations that returned a short URL without error
  marked,     \* history: short URLs whose creator completed a BatchUpdateDeleteFlag on them
  createHist, \* history: per originalURL, the results of CreateShortURL in call order
  lastOp,     \* history: the last operation, its arguments and its result
  pIds,       \* processBatchDelete: ids, the short URLs to delete
  pUser,      \* processBatchDelete: userID
  genIdx,     \* generator: index into input of the next id to send
  inputCh,    \* generator's channel: "open" or "closed"
  worker,     \* deleteURL goroutines: position, id in hand, records read, outcome
  agg,        \* fanIn goroutines: position and outcome in hand
  finalCh,    \* fanIn's merged channel: "open" or "closed"
  doneCh,     \* processBatchDelete's doneCh: "open" or "closed"
  sink,       \* processBatchDelete: position, outcomes received, errors among them
  caller,     \* the handler that called BatchDeleteAsync: position, status written
  calls,      \* history: per short URL, the BatchUpdateDeleteFlag calls the workers made
  saver,      \* concurrent CreateShortURL calls: position and locals of each
  cfgEnv,     \* NewConfig: the environment variables ("" when not set)
  cfgFlag,    \* NewConfig: the command-line flags as flag.Parse leaves them
  cfgFile,    \* NewConfig: the fields of the configuration file ("" when absent)
  cfg,        \* NewConfig: <<the Config returned>>, <<>> before the call
  handler,    \* BatchDeleteHandler, per request: position, cookie, body, status written
  run,        \* per request: the pipeline its BatchDeleteAsync started
  twin        \* a FileStore and a DBStore given the same calls: their states, the
              \* last call and what each returned

svcVars == <<Counter, genCount, created, marked, createHist, lastOp>>
storeVars == <<backend, fileLog, urls, urlsSeq>>
pipeVars == <<pIds, pUser, genIdx, inputCh, worker, agg, finalCh, doneCh, sink, caller, calls>>
cfgVars == <<cfgEnv, cfgFlag, cfgFile, cfg>>
reqVars == <<handler, run>>
vars == <<storeVars, svcVars, pipeVars, saver, cfgVars, reqVars, twin>>

Min(S) == CHOOSE x \in S : \A y \in S : x <= y

URLRecord(uuid, shortURL, originalURL, userID) ==
  [UUID |-> uuid, ShortURL |-> shortURL, OriginalURL |-> originalURL,
   UserUUID |-> userID, DeletedFlag |-> FALSE]

\* ---------------------------------------------------------- FileStore
\* NewProducer opens the file O_WRONLY|O_CREATE|O_APPEND: every write of a
\* producer lands at the end of the file, whatever the file holds.
ProducerWrite(log, records) == log \o records

FileSaveURLRecord(log, rec) ==
  [log |-> ProducerWrite(log, <<rec>>), short |-> "", err |-> "nil"]

FindOriginalURLByShortURL(log, shortURL) ==
  LET hits == {i \in 1..Len(log) : log[i].ShortURL = shortURL}
  IN  IF hits = {}
        THEN [orig |-> "", deleted |-> FALSE, err |-> "os.ErrProcessDone"]
        ELSE [orig |-> log[Min(hits)].OriginalURL,
              deleted |-> log[Min(hits)].DeletedFlag, err |-> "nil"]

FileGetUserURLs(log, userID) ==
  LET mine == SelectSeq(log, LAMBDA r : r.UserUUID = userID)
  IN  [i \in 1..Len(mine) |->
         [ShortURL |-> mine[i].ShortURL, OriginalURL |-> mine[i].OriginalURL]]

\* the read loop of FileStore.BatchUpdateDeleteFlag
UpdatedRecords(log, urlID, userID) ==
  [i \in 1..Len(log) |->
     IF log[i].UUID = urlID /\ log[i].UserUUID = userID
       THEN [log[i] EXCEPT !.DeletedFlag = TRUE]
       ELSE log[i]]

SaveAllRecords(log, records) == ProducerWrite(log, records)

FileBatchUpdateDeleteFlag(log, urlID, userID) ==
  SaveAllRecords(log, UpdatedRecords(log, urlID, userID))

\* ------------------------------------------------------------ DBStore
\* table urls (id SERIAL, short_url, original_url, user_id, deleted) with a
\* unique index on original_url
DBGetShortURL(tbl, originalURL) ==
  LET hits == {r \in tbl : r.original_url = originalURL}
  IN  IF hits = {} THEN [short |-> "", err |-> "pgx.ErrNoRows"]
      ELSE [short |-> (CHOOSE r \in hits : TRUE).short_url, err |-> "nil"]

\* mutant: ON CONFLICT (original_url) DO UPDATE SET user_id = EXCLUDED.user_id,
\* reported as no row inserted
DBInsert_TakeOver(tbl, seq, rec) ==
  IF \E r \in tbl : r.original_url = rec.OriginalURL
    THEN [urls |-> {IF r.original_url = rec.OriginalURL
                      THEN [r EXCEPT !.user_id = rec.UserUUID] ELSE r : r \in tbl},
          seq |-> seq + 1, rows |-> 0]
    ELSE [urls |-> tbl \cup {[id |-> seq + 1, short_url |-> rec.ShortURL,
                              original_url |-> rec.OriginalURL,
                              user_id |-> rec.UserUUID,
                              deleted |-> rec.DeletedFlag]},
          seq |-> seq + 1, rows |-> 1]

\* INSERT ... ON CONFLICT (original_url) DO NOTHING, then the lookup when no
\* row was inserted.  The sequence advances on every attempt.
DBInsert(tbl, seq, rec) ==
  IF \E r \in tbl : r.original_url = rec.OriginalURL
    THEN [urls |-> tbl, seq |-> seq + 1, rows |-> 0]
    ELSE [urls |-> tbl \cup {[id |-> seq + 1, short_url |-> rec.ShortURL,
                              original_url |-> rec.OriginalURL,
                              user_id |-> rec.UserUUID,
                              deleted |-> rec.DeletedFlag]},
          seq |-> seq + 1, rows |-> 1]

\* mutant: the zero-rows case reported as a success with the existing short URL
DBSaveURLRecord_NoDupSignal(tbl, seq, rec) ==
  LET ins == DBInsert(tbl, seq, rec)
      got == DBGetShortURL(ins.urls, rec.OriginalURL)
  IN  IF ins.rows = 0
        THEN [urls |-> ins.urls, seq |-> ins.seq, short |-> got.short, err |-> "nil"]
        ELSE [urls |-> ins.urls, seq |-> ins.seq, short |-> rec.ShortURL, err |-> "nil"]

DBSaveURLRecord(tbl, seq, rec) ==
  LET ins == DBInsert(tbl, seq, rec)
      got == DBGetShortURL(ins.urls, rec.OriginalURL)
  IN  IF ins.rows = 0
        THEN IF got.err # "nil"
               THEN [urls |-> ins.urls, seq |-> ins.seq, short |-> "", err |-> got.err]
               ELSE [urls |-> ins.urls, seq |-> ins.seq, short |-> got.short,
                     err |-> "ErrorDuplicate"]
        ELSE [urls |-> ins.urls, seq |-> ins.seq, short |-> rec.ShortURL, err |-> "nil"]

DBGetOriginalURL(tbl, shortURL) ==
  LET hits == {r \in tbl : r.short_url = shortURL}
  IN  IF hits = {}
        THEN [orig |-> "", deleted |-> FALSE, err |-> "pgx.ErrNoRows"]
        ELSE LET r == CHOOSE r \in hits : \A q \in hits : r.id <= q.id
             IN  [orig |-> r.original_url, deleted |-> r.deleted, err |-> "nil"]

\* mutant: the UPDATE without its user_id condition
DBBatchUpdateDeleteFlag_AnyUser(tbl, urlID, userID) ==
  {IF r.short_url = urlID THEN [r EXCEPT !.deleted = TRUE] ELSE r : r \in tbl}

\* mutant: a DELETE in place of the UPDATE
DBBatchUpdateDeleteFlag_HardDelete(tbl, urlID, userID) ==
  {r \in tbl : ~(r.short_url = urlID /\ r.user_id = userID)}

DBBatchUpdateDeleteFlag(tbl, urlID, userID) ==
  {IF r.short_url = urlID /\ r.user_id = userID
     THEN [r EXCEPT !.deleted = TRUE] ELSE r : r \in tbl}

\* ------------------------------------------- URLStore, by backend
\* the store state the operators below work on
Store == [backend |-> backend, fileLog |-> fileLog, urls |-> urls, urlsSeq |-> urlsSeq]

SaveURLRecord(st, rec) ==
  IF st.backend = "file"
    THEN LET r == FileSaveURLRecord(st.fileLog, rec)
         IN  [st |-> [st EXCEPT !.fileLog = r.log], short |-> r.short, err |-> r.err]
    ELSE LET r == DBSaveURLRecord(st.urls, st.urlsSeq, rec)
         IN  [st |-> [st EXCEPT !.urls = r.urls, !.urlsSeq = r.seq],
              short |-> r.short, err |-> r.err]

GetOriginalURL(st, shortURL) ==
  IF st.backend = "file"
    THEN FindOriginalURLByShortURL(st.fileLog, shortURL)
    ELSE DBGetOriginalURL(st.urls, shortURL)

StoreBatchUpdateDeleteFlag(st, urlID, userID) ==
  IF st.backend = "file"
    THEN [st EXCEPT !.fileLog = FileBatchUpdateDeleteFlag(st.fileLog, urlID, userID)]
    ELSE [st EXCEPT !.urls = DBBatchUpdateDeleteFlag(st.urls, urlID, userID)]

\* DBStore.GetUserURLs has no ORDER BY: the rows come in an order the engine
\* picks, so the result is any arrangement of the matching rows.
DBGetUserURLs(tbl, userID) ==
  LET mine == {r \in tbl : r.user_id = userID}
      n == Cardinality(mine)
  IN  {[i \in 1..n |-> [ShortURL |-> f[i].short_url, OriginalURL |-> f[i].original_url]] :
         f \in {g \in [1..n -> mine] : \A r \in mine : \E i \in 1..n : g[i] = r}}

GetUserURLsResults(st, userID) ==
  IF st.backend = "file"
    THEN {FileGetUserURLs(st.fileLog, userID)}
    ELSE DBGetUserURLs(st.urls, userID)

\* FileStore.GetURLsCount and GetUsersCount read the file to its end: the number
\* of entries, the number of different UserUUID values among them
FileGetURLsCount(log) == Len(log)
FileGetUsersCount(log) == Cardinality({log[i].UserUUID : i \in 1..Len(log)})

\* DBStore: the rows of table urls, the different user_id values among them
DBGetURLsCount(tbl) == Cardinality(tbl)
DBGetUsersCount(tbl) == Cardinality({r.user_id : r \in tbl})

\* ShortenerService.GetStats
GetStatsResult(st) ==
  IF st.backend = "file"
    THEN [urlsCount |-> FileGetURLsCount(st.fileLog),
          usersCount |-> FileGetUsersCount(st.fileLog), err |-> "nil"]
    ELSE [urlsCount |-> DBGetURLsCount(st.urls),
          usersCount |-> DBGetUsersCount(st.urls), err |-> "nil"]

\* -------------------------------------------------- ShortenerService
\* the part of the program state a creation reads and writes; faults are the
\* SaveURLRecord calls of the operation (numbered from 1) at which the storage
\* fails: a write error of the producer, an error of Exec
Sys == [st |-> Store, Counter |-> Counter, genCount |-> genCount, faults |-> {}]

\* SaveURLRecord when the storage may fail: the error is returned, nothing stored
SaveURLRecordOrFail(st, rec, fails) ==
  IF fails THEN [st |-> st, short |-> "", err |-> "StorageFailure"]
  ELSE SaveURLRecord(st, rec)

CreateShortURLResult(sys, originalURL, userID) ==
  LET id == generateID(sys.genCount + 1)
      shortenedURL == ShortURLOf(id)
      urlRecord == URLRecord(Itoa(sys.Counter), shortenedURL, originalURL, userID)
      r == SaveURLRecord(sys.st, urlRecord)
  IN  IF r.err = "ErrorDuplicate"
        THEN [sys |-> [sys EXCEPT !.st = r.st, !.genCount = @ + 1],
              id |-> id, short |-> r.short, err |-> "ErrorDuplicate"]
        ELSE IF r.err # "nil"
          THEN [sys |-> [sys EXCEPT !.st = r.st, !.genCount = @ + 1],
                id |-> id, short |-> "", err |-> r.err]
          ELSE [sys |-> [sys EXCEPT !.st = r.st, !.genCount = @ + 1, !.Counter = @ + 1],
                id |-> id, short |-> shortenedURL, err |-> "nil"]

\* mutant: a failed SaveURLRecord skips the item and the loop goes on
RECURSIVE BatchShortenLoop_KeepGoing(_, _, _, _, _)
BatchShortenLoop_KeepGoing(sys, userID, requests, i, results) ==
  IF i > Len(requests)
    THEN [sys |-> sys, results |-> results, err |-> "nil", saves |-> <<>>]
    ELSE LET id == generateID(sys.genCount + 1)
             shortURL == ShortURLOf(id)
             urlRecord == URLRecord(id, shortURL, requests[i].OriginalURL, userID)
             r == SaveURLRecordOrFail(sys.st, urlRecord, i \in sys.faults)
             save == [short |-> r.short, err |-> r.err]
             rest == IF r.err # "nil"
                       THEN BatchShortenLoop_KeepGoing(
                              [sys EXCEPT !.st = r.st, !.genCount = @ + 1],
                              userID, requests, i + 1, results)
                       ELSE BatchShortenLoop_KeepGoing(
                              [sys EXCEPT !.st = r.st, !.genCount = @ + 1, !.Counter = @ + 1],
                              userID, requests, i + 1,
                              Append(results, [CorrelationID |-> requests[i].CorrelationID,
                                               ShortURL |-> shortURL]))
         IN  [rest EXCEPT !.saves = <<save>> \o @]

\* the loop of BatchShorten from item i on, results being those collected so
\* far; saves are the returns of the SaveURLRecord calls made, in call order
RECURSIVE BatchShortenLoop(_, _, _, _, _)
BatchShortenLoop(sys, userID, requests, i, results) ==
  IF i > Len(requests)
    THEN [sys |-> sys, results |-> results, err |-> "nil", saves |-> <<>>]
    ELSE LET id == generateID(sys.genCount + 1)
             shortURL == ShortURLOf(id)
             urlRecord == URLRecord(id, shortURL, requests[i].OriginalURL, userID)
             r == SaveURLRecordOrFail(sys.st, urlRecord, i \in sys.faults)
             save == [short |-> r.short, err |-> r.err]
         IN  IF r.err # "nil"
               THEN [sys |-> [sys EXCEPT !.st = r.st, !.genCount = @ + 1],
                     results |-> <<>>, err |-> r.err, saves |-> <<save>>]
               ELSE LET rest == BatchShortenLoop(
                          [sys EXCEPT !.st = r.st, !.genCount = @ + 1, !.Counter = @ + 1],
                          userID, requests, i + 1,
                          Append(results, [CorrelationID |-> requests[i].CorrelationID,
                                           ShortURL |-> shortURL]))
                    IN  [rest EXCEPT !.saves = <<save>> \o @]

\* mutant: the results collected in reverse order
BatchShortenResult_Reversed(sys, userID, requests) ==
  LET r == BatchShortenLoop(sys, userID, requests, 1, <<>>)
  IN  [r EXCEPT !.results = [i \in 1..Len(@) |-> @[Len(@) + 1 - i]]]

BatchShortenResult(sys, userID, requests) ==
  BatchShortenLoop(sys, userID, requests, 1, <<>>)

GetShortURL(st, shortID) ==
  LET shortURL == ShortURLOf(shortID)
      r == GetOriginalURL(st, shortURL)
  IN  IF r.err # "nil"
        THEN IF r.err = "os.ErrProcessDone"
               THEN [orig |-> "", err |-> "ErrURLNotFound"]
               ELSE [orig |-> "", err |-> r.err]
        ELSE IF r.deleted
          THEN [orig |-> r.orig, err |-> "ErrURLDeleted"]
          ELSE [orig |-> r.orig, err |-> "nil"]

\* ------------------------------------------------------------ actions
BatchReqs == [CorrelationID : CorrelationIDs, OriginalURL : Origs]
Batches == UNION {[1..n -> BatchReqs] : n \in 0..MaxBatch}

\* room left in the log file for n more entries
LogRoom(n) == backend = "db" \/ Len(fileLog) + n <= MaxLog

SetSys(sys) ==
  /\ fileLog' = sys.st.fileLog
  /\ urls' = sys.st.urls
  /\ urlsSeq' = sys.st.urlsSeq
  /\ Counter' = sys.Counter
  /\ genCount' = sys.genCount
  /\ backend' = backend

\* no CreateShortURL call is in progress
Savers == 1..MaxSavers
SaversIdle ==
  saver = [p \in Savers |-> [pc |-> "idle", id |-> "", rec |-> URLRecord("", "", "", ""),
                             short |-> "", err |-> "nil", tmp |-> 0]]

\* ------------------------------------------------------------ NewConfig
\* The settings of Config.  A source leaves a string setting unset by giving
\* "": os.Getenv of a variable not set, a flag not given (its default is ""),
\* a field absent from the configuration file.  The -s flag is a bool, false
\* when not given; ENABLE_HTTPS is a string like every environment variable.
StringSettings == {"Address", "BaseURL", "FilePath", "DBPath", "TrustedSubnet", "GRPCAddress"}

Unset == [k \in StringSettings |-> ""]

\* currentCfg as NewConfig initialises it
DefaultCfg ==
  [Address |-> "localhost:8080", BaseURL |-> "", FilePath |-> "URLstorage.json",
   DBPath |-> "", EnableHTTPS |-> FALSE, TrustedSubnet |-> "", GRPCAddress |-> ""]

\* loadConfigFromFile: json.Decode into currentCfg overwrites the fields present
loadConfigFromFile(file, currentCfg) ==
  [k \in DOMAIN currentCfg |->
     IF k = "EnableHTTPS" THEN (IF file.EnableHTTPS THEN TRUE ELSE currentCfg.EnableHTTPS)
     ELSE IF file[k] # "" THEN file[k] ELSE currentCfg[k]]

\* if trustedSubnet := os.Getenv("TRUSTED_SUBNET"); trustedSubnet == "" {
\*   cfg.TrustedSubnet = trustedSubnet } else if cfg.TrustedSubnet == "" { ... }
NewConfigTrustedSubnet(env, flag, currentCfg) ==
  IF env.TrustedSubnet = "" THEN env.TrustedSubnet
  ELSE IF flag.TrustedSubnet = "" THEN currentCfg.TrustedSubnet
  ELSE flag.TrustedSubnet

\* the pattern of Address, FilePath, DBPath and GRPCAddress
NewConfigString(k, env, flag, currentCfg) ==
  IF env[k] # "" THEN env[k]
  ELSE IF flag[k] = "" THEN currentCfg[k]
  ELSE flag[k]

NewConfig(env, flag, file) ==
  LET currentCfg == loadConfigFromFile(file, DefaultCfg)
      Address == NewConfigString("Address", env, flag, currentCfg)
  IN  [Address |-> Address,
       BaseURL |-> IF env.BaseURL # "" THEN env.BaseURL
                   ELSE IF flag.BaseURL = ""
                     THEN IF currentCfg.BaseURL # "" THEN currentCfg.BaseURL
                          ELSE "http://" \o Address
                     ELSE flag.BaseURL,
       FilePath |-> NewConfigString("FilePath", env, flag, currentCfg),
       DBPath |-> NewConfigString("DBPath", env, flag, currentCfg),
       EnableHTTPS |-> IF env.EnableHTTPS = "true" THEN TRUE
                       ELSE IF ~flag.EnableHTTPS THEN currentCfg.EnableHTTPS
                       ELSE flag.EnableHTTPS,
       TrustedSubnet |-> NewConfigTrustedSubnet(env, flag, currentCfg),
       GRPCAddress |-> NewConfigString("GRPCAddress", env, flag, currentCfg)]

\* NewConfig has not been called
ConfigIdle ==
  /\ cfgEnv = Unset @@ [EnableHTTPS |-> ""]
  /\ cfgFlag = Unset @@ [EnableHTTPS |-> FALSE]
  /\ cfgFile = Unset @@ [EnableHTTPS |-> FALSE]
  /\ cfg = <<>>

\* no worker has called BatchUpdateDeleteFlag
NoCalls == [u \in {ShortURLOf(id) : id \in IDs} |-> 0]

\* the two stores as constructed, no call made yet
TwinIdle ==
  twin = [file |-> [st |-> [backend |-> "file", fileLog |-> <<>>, urls |-> {}, urlsSeq |-> 0],
                    Counter |-> 1, genCount |-> 0],
          db |-> [st |-> [backend |-> "db", fileLog |-> <<>>, urls |-> {}, urlsSeq |-> 0],
                  Counter |-> 1, genCount |-> 0],
          call |-> [op |-> "init"], file_ret |-> {}, db_ret |-> {}]

\* no batch-delete request has arrived
Requests == 1..MaxRequests
NoRun == [started |-> FALSE, userID |-> "", ids |-> <<>>, next |-> 1,
          worker |-> [w \in 1..NumWorkers |-> [pc |-> "done", id |-> ""]]]
HandlersIdle ==
  /\ handler = [r \in Requests |-> [pc |-> "idle", cookie |-> "none", ids |-> <<>>, status |-> 0]]
  /\ run = [r \in Requests |-> NoRun]

\* no batch deletion has been started
PipeIdle ==
  /\ pIds = <<>>
  /\ pUser = ""
  /\ genIdx = 1
  /\ inputCh = "closed"
  /\ worker = [w \in 1..NumWorkers |-> [pc |-> "done", id |-> "", snap |-> <<>>, err |-> "nil"]]
  /\ agg = [w \in 1..NumWorkers |-> [pc |-> "done", err |-> "nil"]]
  /\ finalCh = "closed"
  /\ doneCh = "closed"
  /\ sink = [pc |-> "returned", got |-> 0, errs |-> 0]
  /\ caller = [pc |-> "idle", status |-> 0]
  /\ calls = NoCalls

Init ==
  /\ backend \in Backends
  /\ fileLog = <<>>
  /\ urls = {}
  /\ urlsSeq = 0
  /\ Counter = 1
  /\ genCount = 0
  /\ created = {}
  /\ marked = {}
  /\ createHist = [o \in Origs |-> <<>>]
  /\ lastOp = [op |-> "init"]
  /\ PipeIdle
  /\ SaversIdle
  /\ ConfigIdle
  /\ HandlersIdle
  /\ TwinIdle

CreateShortURL(originalURL, userID) ==
  /\ genCount < MaxCodes
  /\ LogRoom(1)
  /\ LET r == CreateShortURLResult(Sys, originalURL, userID)
     IN  /\ SetSys(r.sys)
         /\ created' = IF r.err = "nil"
                         THEN created \cup {[id |-> r.id, ShortURL |-> r.short,
                                             OriginalURL |-> originalURL,
                                             UserUUID |-> userID]}
                         ELSE created
         /\ createHist' = [createHist EXCEPT ![originalURL] =
                             Append(@, [short |-> r.short, err |-> r.err])]
         /\ lastOp' = [op |-> "CreateShortURL", originalURL |-> originalURL,
                       userID |-> userID, short |-> r.short, err |-> r.err]
  /\ UNCHANGED <<marked, pipeVars, cfgVars, reqVars, twin, saver>>

\* originalURLs of the stored records
StoredOriginals(st) ==
  IF st.backend = "file" THEN {st.fileLog[i].OriginalURL : i \in 1..Len(st.fileLog)}
  ELSE {r.original_url : r \in st.urls}

\* the storage fails at most one SaveURLRecord call of a request
BatchFaults(requests) == {{}} \cup {{k} : k \in 1..Len(requests)}

BatchShorten(userID, requests, faults) ==
  /\ genCount + Len(requests) <= MaxCodes
  /\ LogRoom(Len(requests))
  /\ LET r == BatchShortenResult([Sys EXCEPT !.faults = faults], userID, requests)
     IN  /\ SetSys(r.sys)
         /\ created' = created \cup
              {[id |-> generateID(genCount + i), ShortURL |-> r.results[i].ShortURL,
                OriginalURL |-> requests[i].OriginalURL, UserUUID |-> userID] :
                 i \in 1..Len(r.results)}
         /\ lastOp' = [op |-> "BatchShorten", userID |-> userID, requests |-> requests,
                       results |-> r.results, err |-> r.err, saves |-> r.saves,
                       dup |-> [i \in 1..Len(requests) |->
                                  \/ requests[i].OriginalURL \in StoredOriginals(Store)
                                  \/ \E j \in 1..(i - 1) :
                                       requests[j].OriginalURL = requests[i].OriginalURL],
                       firstGen |-> genCount]
  /\ UNCHANGED <<marked, createHist, pipeVars, cfgVars, reqVars, twin, saver>>

GetOriginal(shortID) ==
  /\ lastOp' = [op |-> "GetShortURL", shortID |-> shortID,
                ret |-> GetShortURL(Store, shortID)]
  /\ UNCHANGED <<storeVars, Counter, genCount, created, marked, createHist, pipeVars, cfgVars, reqVars, twin, saver>>

GetUserURLs(userID) ==
  /\ \E out \in GetUserURLsResults(Store, userID) :
       lastOp' = [op |-> "GetUserURLs", userID |-> userID, records |-> out]
  /\ UNCHANGED <<storeVars, Counter, genCount, created, marked, createHist, pipeVars, cfgVars, reqVars, twin, saver>>

GetStats ==
  /\ lastOp' = [op |-> "GetStats", urlsCount |-> GetStatsResult(Store).urlsCount,
                usersCount |-> GetStatsResult(Store).usersCount,
                err |-> GetStatsResult(Store).err]
  /\ UNCHANGED <<storeVars, Counter, genCount, created, marked, createHist, pipeVars, cfgVars, reqVars, twin, saver>>

\* one call of the store's BatchUpdateDeleteFlag, as a pipeline worker makes it
BatchUpdateDeleteFlag(id, userID) ==
  /\ backend = "db" \/ 2 * Len(fileLog) <= MaxLog
  /\ LET st == StoreBatchUpdateDeleteFlag(Store, ShortURLOf(id), userID)
     IN  /\ fileLog' = st.fileLog
         /\ urls' = st.urls
  /\ marked' = marked \cup {c.ShortURL : c \in {d \in created :
                                   d.ShortURL = ShortURLOf(id) /\ d.UserUUID = userID}}
  /\ lastOp' = [op |-> "BatchUpdateDeleteFlag", urlID |-> ShortURLOf(id),
                userID |-> userID, err |-> "nil"]
  /\ UNCHANGED <<backend, urlsSeq, Counter, genCount, created, createHist, pipeVars, cfgVars, reqVars, twin, saver>>

Next ==
  \/ \E o \in Origs, u \in Users : CreateShortURL(o, u)
  \/ \E u \in Users, b \in Batches : \E f \in BatchFaults(b) : BatchShorten(u, b, f)
  \/ \E id \in RequestIDs : GetOriginal(id)
  \/ \E u \in Users : GetUserURLs(u)
  \/ GetStats
  \/ \E id \in RequestIDs, u \in Users : BatchUpdateDeleteFlag(id, u)

Spec == Init /\ [][Next]_vars

\* ------------------------------------------------ batch-deletion pipeline
\* BatchDeleteHandler writes 202 Accepted and calls BatchDeleteAsync: the base
\* URL is prepended to every id, then processBatchDelete runs in a goroutine of
\* its own.  processBatchDelete makes
\* doneCh, starts the generator, the NumWorkers deleteURL goroutines, the fanIn
\* goroutines and the closer, and ranges over the merged channel.
Workers == 1..NumWorkers

\* the store as two CreateShortURL calls of u1 leave it
OrigSeq == <<"https://ya.ru", "https://practicum.yandex.ru">>
Sys0(b) ==
  [st |-> [backend |-> b, fileLog |-> <<>>, urls |-> {}, urlsSeq |-> 0],
   Counter |-> 1, genCount |-> 0]
Created1(b) == CreateShortURLResult(Sys0(b), OrigSeq[1], "u1")
Created2(b) == CreateShortURLResult(Created1(b).sys, OrigSeq[2], "u1")

\* the id lists submitted: the two created ids in turn, up to MaxIds of them
IdLists == {[i \in 1..n |-> generateID(((i - 1) % 2) + 1)] : n \in 0..MaxIds}

BatchDeleteAsync(userID, ids) ==
  /\ pIds = [i \in 1..Len(ids) |-> ShortURLOf(ids[i])]
  /\ pUser = userID
  /\ genIdx = 1
  /\ inputCh = "open"
  /\ worker = [w \in Workers |-> [pc |-> "recv", id |-> "", snap |-> <<>>, err |-> "nil"]]
  /\ agg = [w \in Workers |-> [pc |-> "recv", err |-> "nil"]]
  /\ finalCh = "open"
  /\ doneCh = "open"
  /\ sink = [pc |-> "range", got |-> 0, errs |-> 0]
  /\ caller = [pc |-> "async", status |-> 202]
  /\ calls = NoCalls

InitPipe ==
  /\ backend \in Backends
  /\ LET sys == Created2(backend).sys
     IN  /\ fileLog = sys.st.fileLog
         /\ urls = sys.st.urls
         /\ urlsSeq = sys.st.urlsSeq
         /\ Counter = sys.Counter
         /\ genCount = sys.genCount
  /\ created = {[id |-> generateID(i), ShortURL |-> ShortURLOf(generateID(i)),
                 OriginalURL |-> OrigSeq[i], UserUUID |-> "u1"] : i \in 1..2}
  /\ marked = {}
  /\ createHist = [o \in Origs |->
                     <<[short |-> ShortURLOf(generateID(CHOOSE i \in 1..2 : OrigSeq[i] = o)),
                        err |-> "nil"]>>]
  /\ \E ids \in IdLists :
       /\ BatchDeleteAsync("u1", ids)
       /\ lastOp = [op |-> "BatchDeleteAsync", userID |-> "u1", ids |-> ids]
  /\ SaversIdle
  /\ ConfigIdle
  /\ HandlersIdle
  /\ TwinIdle

\* mutant: processBatchDelete called without go, the return waits for it
BatchDeleteAsyncReturn_Sync ==
  /\ caller.pc = "async"
  /\ sink.pc = "returned"
  /\ caller' = [caller EXCEPT !.pc = "returned"]
  /\ UNCHANGED <<reqVars, twin, cfgVars, saver, storeVars, svcVars, pIds, pUser, genIdx, inputCh, worker,
                 agg, finalCh, doneCh, sink, calls>>

\* BatchDeleteAsync returns to the handler once the go statement has run; the
\* handler wrote its status before the call and returns in turn
BatchDeleteAsyncReturn ==
  /\ caller.pc = "async"
  /\ caller' = [caller EXCEPT !.pc = "returned"]
  /\ UNCHANGED <<reqVars, twin, cfgVars, saver, storeVars, svcVars, pIds, pUser, genIdx, inputCh, worker,
                 agg, finalCh, doneCh, sink, calls>>

\* generator: select { case <-doneCh: return; case inputCh <- data: }
GeneratorSend(w) ==
  /\ inputCh = "open"
  /\ genIdx <= Len(pIds)
  /\ worker[w].pc = "recv"
  /\ worker' = [worker EXCEPT ![w].pc = "call", ![w].id = pIds[genIdx]]
  /\ genIdx' = genIdx + 1
  /\ UNCHANGED <<reqVars, twin, cfgVars, saver, caller, calls, storeVars, svcVars, pIds, pUser, inputCh, agg, finalCh, doneCh, sink>>

\* generator returns, at the end of input or by its done case: close(inputCh)
GeneratorReturn ==
  /\ inputCh = "open"
  /\ genIdx > Len(pIds) \/ doneCh = "closed"
  /\ inputCh' = "closed"
  /\ UNCHANGED <<reqVars, twin, cfgVars, saver, caller, calls, storeVars, svcVars, pIds, pUser, genIdx, worker, agg, finalCh, doneCh, sink>>

\* errors returned by BatchUpdateDeleteFlag so far: those the sink has received
\* and those a worker or a fanIn goroutine has in hand
FailuresSoFar ==
  sink.errs
    + Cardinality({w \in Workers : worker[w].pc = "send" /\ worker[w].err # "nil"})
    + Cardinality({w \in Workers : agg[w].pc = "send" /\ agg[w].err # "nil"})

\* failing calls are explored for the lists of up to MaxIds ids
FailureBudget == IF Len(pIds) > MaxIds THEN 0 ELSE MaxFailures

\* mutant: a worker whose call failed makes the call again
WorkerCall_Retry(w) ==
  /\ worker[w].pc = "call"
  /\ \/ /\ IF backend = "db"
             THEN /\ urls' = DBBatchUpdateDeleteFlag(urls, worker[w].id, pUser)
                  /\ worker' = [worker EXCEPT ![w].pc = "send", ![w].err = "nil"]
                  /\ UNCHANGED fileLog
             ELSE LET updatedRecords == UpdatedRecords(fileLog, worker[w].id, pUser)
                  IN  /\ worker' = [worker EXCEPT
                                      ![w].pc = IF updatedRecords = <<>> THEN "send" ELSE "write",
                                      ![w].snap = updatedRecords, ![w].err = "nil"]
                      /\ UNCHANGED <<fileLog, urls>>
        /\ marked' = IF backend = "db"
                       THEN marked \cup {c.ShortURL : c \in {d \in created :
                              d.ShortURL = worker[w].id /\ d.UserUUID = pUser}}
                       ELSE marked
     \/ \* the call is made again
        /\ FailuresSoFar < FailureBudget
        /\ worker' = [worker EXCEPT ![w].pc = "call", ![w].err = "StorageFailure"]
        /\ UNCHANGED <<fileLog, urls, marked>>
  /\ calls' = [calls EXCEPT ![worker[w].id] = @ + 1]
  /\ UNCHANGED <<reqVars, twin, cfgVars, saver, caller, backend, urlsSeq, Counter, genCount, created, createHist, lastOp,
                 pIds, pUser, genIdx, inputCh, agg, finalCh, doneCh, sink>>

\* deleteURL: s.Store.BatchUpdateDeleteFlag(id, userID).  DBStore runs one
\* UPDATE; FileStore reads the file to its end (the file only grows, so what it
\* has read is the file as it is when the read reaches the end), then writes.
WorkerCall(w) ==
  /\ worker[w].pc = "call"
  /\ \/ /\ IF backend = "db"
             THEN /\ urls' = DBBatchUpdateDeleteFlag(urls, worker[w].id, pUser)
                  /\ worker' = [worker EXCEPT ![w].pc = "send", ![w].err = "nil"]
                  /\ UNCHANGED fileLog
             ELSE LET updatedRecords == UpdatedRecords(fileLog, worker[w].id, pUser)
                  IN  /\ worker' = [worker EXCEPT
                                      ![w].pc = IF updatedRecords = <<>> THEN "send" ELSE "write",
                                      ![w].snap = updatedRecords, ![w].err = "nil"]
                      /\ UNCHANGED <<fileLog, urls>>
        /\ marked' = IF backend = "db"
                       THEN marked \cup {c.ShortURL : c \in {d \in created :
                              d.ShortURL = worker[w].id /\ d.UserUUID = pUser}}
                       ELSE marked
     \/ \* the storage fails: Exec returns an error, the file cannot be opened or read
        /\ FailuresSoFar < FailureBudget
        /\ worker' = [worker EXCEPT ![w].pc = "send", ![w].err = "StorageFailure"]
        /\ UNCHANGED <<fileLog, urls, marked>>
  /\ calls' = [calls EXCEPT ![worker[w].id] = @ + 1]
  /\ UNCHANGED <<reqVars, twin, cfgVars, saver, caller, backend, urlsSeq, Counter, genCount, created, createHist, lastOp,
                 pIds, pUser, genIdx, inputCh, agg, finalCh, doneCh, sink>>

\* SaveAllRecords: the records read are appended to the file.  Every
\* WriteURLRecord is one O_APPEND write; the writes of one call are taken
\* together, which fixes only the order of the appended entries.
WorkerWrite(w) ==
  /\ worker[w].pc = "write"
  /\ fileLog' = SaveAllRecords(fileLog, worker[w].snap)
  /\ worker' = [worker EXCEPT ![w].snap = <<>>, ![w].pc = "send"]
  /\ marked' = marked \cup {c.ShortURL : c \in {d \in created :
                                   d.ShortURL = worker[w].id /\ d.UserUUID = pUser}}
  /\ UNCHANGED <<reqVars, twin, cfgVars, saver, caller, calls, backend, urls, urlsSeq, Counter, genCount, created, createHist,
                 lastOp, pIds, pUser, genIdx, inputCh, agg, finalCh, doneCh, sink>>

\* deleteURL: select { case <-doneCh: return; case resultCh <- err: }
WorkerSelect(w) ==
  /\ worker[w].pc = "send"
  /\ \/ /\ agg[w].pc = "recv"
        /\ agg' = [agg EXCEPT ![w] = [pc |-> "send", err |-> worker[w].err]]
        /\ worker' = [worker EXCEPT ![w].pc = "recv", ![w].id = "", ![w].err = "nil"]
     \/ /\ doneCh = "closed"
        /\ worker' = [worker EXCEPT ![w].pc = "done", ![w].id = ""]
        /\ UNCHANGED agg
  /\ UNCHANGED <<reqVars, twin, cfgVars, saver, caller, calls, storeVars, svcVars, pIds, pUser, genIdx, inputCh, finalCh, doneCh, sink>>

\* deleteURL: range inputCh ends, the deferred close(resultCh) runs
WorkerReturn(w) ==
  /\ worker[w].pc = "recv"
  /\ inputCh = "closed"
  /\ worker' = [worker EXCEPT ![w].pc = "done"]
  /\ UNCHANGED <<reqVars, twin, cfgVars, saver, caller, calls, storeVars, svcVars, pIds, pUser, genIdx, inputCh, agg, finalCh, doneCh, sink>>

\* fanIn goroutine: select { case <-doneCh: return; case finalCh <- err: }
AggSelect(w) ==
  /\ agg[w].pc = "send"
  /\ \/ /\ sink.pc = "range"
        /\ finalCh = "open"
        /\ sink' = [sink EXCEPT !.got = @ + 1,
                                !.errs = @ + (IF agg[w].err # "nil" THEN 1 ELSE 0)]
        /\ agg' = [agg EXCEPT ![w] = [pc |-> "recv", err |-> "nil"]]
     \/ /\ doneCh = "closed"
        /\ agg' = [agg EXCEPT ![w] = [pc |-> "done", err |-> "nil"]]
        /\ UNCHANGED sink
  /\ UNCHANGED <<reqVars, twin, cfgVars, saver, caller, calls, storeVars, svcVars, pIds, pUser, genIdx, inputCh, worker, finalCh, doneCh>>

\* fanIn goroutine: range chClosure ends, the deferred wg.Done() runs
AggReturn(w) ==
  /\ agg[w].pc = "recv"
  /\ worker[w].pc = "done"
  /\ agg' = [agg EXCEPT ![w].pc = "done"]
  /\ UNCHANGED <<reqVars, twin, cfgVars, saver, caller, calls, storeVars, svcVars, pIds, pUser, genIdx, inputCh, worker, finalCh, doneCh, sink>>

\* mutant: close(finalCh) without wg.Wait()
Closer_NoWait ==
  /\ finalCh = "open"
  /\ finalCh' = "closed"
  /\ UNCHANGED <<reqVars, twin, cfgVars, saver, caller, calls, storeVars, svcVars, pIds, pUser, genIdx, inputCh, worker, agg, doneCh, sink>>

\* mutant: the closer goroutine returns without close(finalCh)
Closer_NoClose ==
  /\ finalCh = "open"
  /\ \A w \in Workers : agg[w].pc = "done"
  /\ UNCHANGED vars

\* fanIn closer: wg.Wait(); close(finalCh)
Closer ==
  /\ finalCh = "open"
  /\ \A w \in Workers : agg[w].pc = "done"
  /\ finalCh' = "closed"
  /\ UNCHANGED <<reqVars, twin, cfgVars, saver, caller, calls, storeVars, svcVars, pIds, pUser, genIdx, inputCh, worker, agg, doneCh, sink>>

\* mutant: processBatchDelete returns without ranging over resultCh to its end
SinkReturn_Early ==
  /\ sink.pc = "range"
  /\ sink' = [sink EXCEPT !.pc = "returned"]
  /\ doneCh' = "closed"
  /\ UNCHANGED <<reqVars, twin, cfgVars, saver, caller, calls, storeVars, svcVars, pIds, pUser, genIdx, inputCh, worker, agg, finalCh>>

\* processBatchDelete: range resultCh ends, the deferred close(doneCh) runs
SinkReturn ==
  /\ sink.pc = "range"
  /\ finalCh = "closed"
  /\ sink' = [sink EXCEPT !.pc = "returned"]
  /\ doneCh' = "closed"
  /\ UNCHANGED <<reqVars, twin, cfgVars, saver, caller, calls, storeVars, svcVars, pIds, pUser, genIdx, inputCh, worker, agg, finalCh>>

\* the goroutines of the pipeline; the caller's return, which no goroutine
\* waits for or reads, is followed in NextPipeLong
NextPipe ==
  \/ \E w \in Workers : GeneratorSend(w)
  \/ GeneratorReturn
  \/ \E w \in Workers : WorkerCall(w)
  \/ \E w \in Workers : WorkerWrite(w)
  \/ \E w \in Workers : WorkerSelect(w)
  \/ \E w \in Workers : WorkerReturn(w)
  \/ \E w \in Workers : AggSelect(w)
  \/ \E w \in Workers : AggReturn(w)
  \/ Closer
  \/ SinkReturn

SpecPipe == InitPipe /\ [][NextPipe]_vars

\* Lists that are empty, shorter than the number of workers and longer than
\* it (one id, repeated), on DBStore, whose BatchUpdateDeleteFlag is one
\* statement.  Every goroutine that can take a step is scheduled sooner or later.
LongIdLists ==
  {[i \in 1..n |-> generateID(1)] : n \in {0, 1, NumWorkers + MaxExtraIds}}

InitPipeLong ==
  /\ backend = "db"
  /\ LET sys == Created2(backend).sys
     IN  /\ fileLog = sys.st.fileLog
         /\ urls = sys.st.urls
         /\ urlsSeq = sys.st.urlsSeq
         /\ Counter = sys.Counter
         /\ genCount = sys.genCount
  /\ created = {[id |-> generateID(i), ShortURL |-> ShortURLOf(generateID(i)),
                 OriginalURL |-> OrigSeq[i], UserUUID |-> "u1"] : i \in 1..2}
  /\ marked = {}
  /\ createHist = [o \in Origs |->
                     <<[short |-> ShortURLOf(generateID(CHOOSE i \in 1..2 : OrigSeq[i] = o)),
                        err |-> "nil"]>>]
  /\ \E ids \in LongIdLists :
       /\ BatchDeleteAsync("u1", ids)
       /\ lastOp = [op |-> "BatchDeleteAsync", userID |-> "u1", ids |-> ids]
  /\ SaversIdle
  /\ ConfigIdle
  /\ HandlersIdle
  /\ TwinIdle

\* the steps of the pipeline on DBStore, where no worker has a file to write,
\* and the return of BatchDeleteAsync to its caller
NextPipeLong ==
  \/ BatchDeleteAsyncReturn
  \/ \E w \in Workers : GeneratorSend(w)
  \/ GeneratorReturn
  \/ \E w \in Workers : WorkerCall(w)
  \/ \E w \in Workers : WorkerSelect(w)
  \/ \E w \in Workers : WorkerReturn(w)
  \/ \E w \in Workers : AggSelect(w)
  \/ \E w \in Workers : AggReturn(w)
  \/ Closer
  \/ SinkReturn

SpecPipeLong == InitPipeLong /\ [][NextPipeLong]_vars /\ WF_vars(NextPipeLong)

\* --------------------------- batch-delete requests and their pipelines
\* the cookie of a request: absent, one whose token does not verify, u1's token
Cookies == {"none", "invalid", "u1"}

\* "" for a token that does not parse or is not valid, else the UserID claim
GetUserID(tokenString) == IF tokenString = "invalid" THEN "" ELSE tokenString

\* r.Cookie fails without the cookie; with a cookie the err returned is the
\* nil one of r.Cookie, also when GetUserID gave ""
AuthGet(cookie) ==
  IF cookie = "none"
    THEN [userID |-> "", err |-> "ErrNoCookie"]
    ELSE [userID |-> GetUserID(cookie), err |-> "nil"]

\* http.Error and w.WriteHeader: the first status written is the response's
WriteHeader(status, code) == IF status = 0 THEN code ELSE status

\* the bodies of the requests: no id, one, as many as there are workers
RequestIdLists == {[i \in 1..n |-> generateID(1)] : n \in {0, 1, NumWorkers}}

\* BatchDeleteAsync, go processBatchDelete: generator and numWorkers deleteURL
\* goroutines of their own for this call
StartRun(userID, ids) ==
  [started |-> TRUE, userID |-> userID,
   ids |-> [i \in 1..Len(ids) |-> ShortURLOf(ids[i])], next |-> 1,
   worker |-> [w \in Workers |-> [pc |-> "recv", id |-> ""]]]

InitHandlers ==
  /\ backend = "db"
  /\ LET sys == Created2(backend).sys
     IN  /\ fileLog = sys.st.fileLog
         /\ urls = sys.st.urls
         /\ urlsSeq = sys.st.urlsSeq
         /\ Counter = sys.Counter
         /\ genCount = sys.genCount
  /\ created = {[id |-> generateID(i), ShortURL |-> ShortURLOf(generateID(i)),
                 OriginalURL |-> OrigSeq[i], UserUUID |-> "u1"] : i \in 1..2}
  /\ marked = {}
  /\ createHist = [o \in Origs |->
                     <<[short |-> ShortURLOf(generateID(CHOOSE i \in 1..2 : OrigSeq[i] = o)),
                        err |-> "nil"]>>]
  /\ lastOp = [op |-> "init"]
  /\ handler \in [Requests -> [pc : {"serving"}, cookie : Cookies, ids : RequestIdLists,
                               status : {0}]]
  /\ run = [r \in Requests |-> NoRun]
  /\ PipeIdle
  /\ SaversIdle
  /\ ConfigIdle
  /\ TwinIdle

\* BatchDeleteHandler: after http.Error(401) the handler goes on to the body
BatchDeleteHandler(r) ==
  /\ handler[r].pc = "serving"
  /\ LET auth == AuthGet(handler[r].cookie)
         unauthorized == IF auth.err # "nil" THEN WriteHeader(0, 401) ELSE 0
         ids == handler[r].ids
     IN  IF Len(ids) = 0
           THEN /\ handler' = [handler EXCEPT ![r].pc = "returned",
                                              ![r].status = WriteHeader(unauthorized, 400)]
                /\ UNCHANGED run
           ELSE /\ handler' = [handler EXCEPT ![r].pc = "returned",
                                              ![r].status = WriteHeader(unauthorized, 202)]
                /\ run' = [run EXCEPT ![r] = StartRun(auth.userID, ids)]
  /\ lastOp' = [op |-> "BatchDeleteHandler", request |-> r]
  /\ UNCHANGED <<twin, cfgVars, saver, storeVars, pipeVars, Counter, genCount, created, marked,
                 createHist>>

\* the generator of request r hands its next id to worker w, which calls
\* s.Store.BatchUpdateDeleteFlag(id, userID)
RunReceive(r, w) ==
  /\ run[r].started
  /\ run[r].next <= Len(run[r].ids)
  /\ run[r].worker[w].pc = "recv"
  /\ run' = [run EXCEPT ![r].next = @ + 1,
                        ![r].worker[w] = [pc |-> "call", id |-> run[r].ids[run[r].next]]]
  /\ UNCHANGED <<twin, cfgVars, saver, storeVars, svcVars, pipeVars, handler>>

\* the UPDATE of worker w's call runs and the call returns; the outcome goes to
\* the sink of the request's pipeline and the worker waits for the next id
RunCallReturn(r, w) ==
  /\ run[r].worker[w].pc = "call"
  /\ urls' = DBBatchUpdateDeleteFlag(urls, run[r].worker[w].id, run[r].userID)
  /\ marked' = marked \cup {c.ShortURL : c \in {d \in created :
                   d.ShortURL = run[r].worker[w].id /\ d.UserUUID = run[r].userID}}
  /\ run' = [run EXCEPT ![r].worker[w] = [pc |-> "recv", id |-> ""]]
  /\ UNCHANGED <<twin, cfgVars, saver, pipeVars, handler, backend, fileLog, urlsSeq, Counter,
                 genCount, created, createHist, lastOp>>

NextHandlers ==
  \/ \E r \in Requests : BatchDeleteHandler(r)
  \/ \E r \in Requests, w \in Workers : RunReceive(r, w)
  \/ \E r \in Requests, w \in Workers : RunCallReturn(r, w)

SpecHandlers == InitHandlers /\ [][NextHandlers]_vars

\* ------------------------ a FileStore and a DBStore given the same calls
\* Each action makes one call on both stores, each from its own state, and
\* records the possible returns of each.
TwinCreateShortURL(originalURL, userID) ==
  /\ twin.file.genCount < MaxCodes
  /\ Len(twin.file.st.fileLog) + 1 <= MaxLog
  /\ LET f == CreateShortURLResult(twin.file, originalURL, userID)
         d == CreateShortURLResult(twin.db, originalURL, userID)
     IN  twin' = [file |-> f.sys, db |-> d.sys,
                  call |-> [op |-> "CreateShortURL", originalURL |-> originalURL,
                            userID |-> userID],
                  file_ret |-> {[short |-> f.short, err |-> f.err]},
                  db_ret |-> {[short |-> d.short, err |-> d.err]}]
  /\ UNCHANGED <<storeVars, svcVars, pipeVars, saver, cfgVars, reqVars>>

TwinGetOriginalURL(id) ==
  /\ twin' = [twin EXCEPT
                !.call = [op |-> "GetOriginalURL", shortURL |-> ShortURLOf(id)],
                !.file_ret = {GetOriginalURL(twin.file.st, ShortURLOf(id))},
                !.db_ret = {GetOriginalURL(twin.db.st, ShortURLOf(id))}]
  /\ UNCHANGED <<storeVars, svcVars, pipeVars, saver, cfgVars, reqVars>>

TwinGetUserURLs(userID) ==
  /\ twin' = [twin EXCEPT
                !.call = [op |-> "GetUserURLs", userID |-> userID],
                !.file_ret = GetUserURLsResults(twin.file.st, userID),
                !.db_ret = GetUserURLsResults(twin.db.st, userID)]
  /\ UNCHANGED <<storeVars, svcVars, pipeVars, saver, cfgVars, reqVars>>

TwinBatchUpdateDeleteFlag(id, userID) ==
  /\ 2 * Len(twin.file.st.fileLog) <= MaxLog
  /\ twin' = [twin EXCEPT
                !.file.st = StoreBatchUpdateDeleteFlag(@, ShortURLOf(id), userID),
                !.db.st = StoreBatchUpdateDeleteFlag(@, ShortURLOf(id), userID),
                !.call = [op |-> "BatchUpdateDeleteFlag", urlID |-> ShortURLOf(id),
                          userID |-> userID],
                !.file_ret = {[err |-> "nil"]},
                !.db_ret = {[err |-> "nil"]}]
  /\ UNCHANGED <<storeVars, svcVars, pipeVars, saver, cfgVars, reqVars>>

InitTwin == Init /\ backend = "file"

NextTwin ==
  \/ \E o \in Origs, u \in Users : TwinCreateShortURL(o, u)
  \/ \E id \in RequestIDs : TwinGetOriginalURL(id)
  \/ \E u \in Users : TwinGetUserURLs(u)
  \/ \E id \in RequestIDs, u \in Users : TwinBatchUpdateDeleteFlag(id, u)

SpecTwin == InitTwin /\ [][NextTwin]_vars

\* ------------------------------------- concurrent CreateShortURL calls
\* Every request is served in a goroutine of its own, so CreateShortURL calls
\* overlap.  One call, step by step: build the record (generateID, Counter
\* read), the store's write, the lookup DBStore makes when no row was inserted,
\* the return, and Counter++ as a load and a store of the unguarded global.
InitSave ==
  /\ backend \in Backends
  /\ fileLog = <<>>
  /\ urls = {}
  /\ urlsSeq = 0
  /\ Counter = 1
  /\ genCount = 0
  /\ created = {}
  /\ marked = {}
  /\ createHist = [o \in Origs |-> <<>>]
  /\ lastOp = [op |-> "init"]
  /\ PipeIdle
  /\ SaversIdle
  /\ ConfigIdle
  /\ HandlersIdle
  /\ TwinIdle

SaveBuild(p, originalURL, userID) ==
  /\ saver[p].pc = "idle"
  /\ genCount' = genCount + 1
  /\ saver' = [saver EXCEPT ![p].pc = "save", ![p].id = generateID(genCount + 1),
                            ![p].rec = URLRecord(Itoa(Counter), ShortURLOf(generateID(genCount + 1)),
                                                 originalURL, userID)]
  /\ UNCHANGED <<storeVars, Counter, created, marked, createHist, lastOp, pipeVars, cfgVars, reqVars, twin>>

\* FileStore: one O_APPEND write.  DBStore: the INSERT ... ON CONFLICT DO NOTHING.
SaveWrite(p) ==
  /\ saver[p].pc = "save"
  /\ IF backend = "file"
       THEN LET r == FileSaveURLRecord(fileLog, saver[p].rec)
            IN  /\ fileLog' = r.log
                /\ saver' = [saver EXCEPT ![p].pc = "ret", ![p].short = r.short, ![p].err = r.err]
                /\ UNCHANGED <<urls, urlsSeq>>
       ELSE LET ins == DBInsert(urls, urlsSeq, saver[p].rec)
            IN  /\ urls' = ins.urls
                /\ urlsSeq' = ins.seq
                /\ saver' = [saver EXCEPT ![p].pc = IF ins.rows = 0 THEN "lookup" ELSE "ret",
                                          ![p].short = saver[p].rec.ShortURL]
                /\ UNCHANGED fileLog
  /\ UNCHANGED <<backend, svcVars, pipeVars, cfgVars, reqVars, twin>>

\* DBStore.SaveURLRecord: store.GetShortURL after RowsAffected() == 0
SaveLookup(p) ==
  /\ saver[p].pc = "lookup"
  /\ LET got == DBGetShortURL(urls, saver[p].rec.OriginalURL)
     IN  saver' = [saver EXCEPT ![p].pc = "ret",
                                ![p].short = got.short,
                                ![p].err = IF got.err # "nil" THEN got.err ELSE "ErrorDuplicate"]
  /\ UNCHANGED <<storeVars, svcVars, pipeVars, cfgVars, reqVars, twin>>

\* CreateShortURL after SaveURLRecord: return on ErrorDuplicate, else load Counter
SaveReturn(p) ==
  /\ saver[p].pc = "ret"
  /\ saver' = [saver EXCEPT ![p].pc = IF saver[p].err = "nil" THEN "inc" ELSE "done",
                            ![p].tmp = Counter]
  /\ created' = IF saver[p].err = "nil"
                  THEN created \cup {[id |-> saver[p].id,
                                      ShortURL |-> saver[p].rec.ShortURL,
                                      OriginalURL |-> saver[p].rec.OriginalURL,
                                      UserUUID |-> saver[p].rec.UserUUID]}
                  ELSE created
  /\ createHist' = [createHist EXCEPT ![saver[p].rec.OriginalURL] =
                      Append(@, [short |-> IF saver[p].err = "nil"
                                             THEN saver[p].rec.ShortURL ELSE saver[p].short,
                                 err |-> saver[p].err])]
  /\ lastOp' = [op |-> "CreateShortURL", originalURL |-> saver[p].rec.OriginalURL,
                userID |-> saver[p].rec.UserUUID,
                short |-> IF saver[p].err = "nil" THEN saver[p].rec.ShortURL ELSE saver[p].short,
                err |-> saver[p].err]
  /\ UNCHANGED <<storeVars, Counter, genCount, marked, pipeVars, cfgVars, reqVars, twin>>

\* Counter++ : the store of the value loaded, plus one
SaveCounterStore(p) ==
  /\ saver[p].pc = "inc"
  /\ Counter' = saver[p].tmp + 1
  /\ saver' = [saver EXCEPT ![p].pc = "done"]
  /\ UNCHANGED <<storeVars, genCount, created, marked, createHist, lastOp, pipeVars, cfgVars, reqVars, twin>>

NextSave ==
  \/ \E p \in Savers, o \in Origs, u \in Users : SaveBuild(p, o, u)
  \/ \E p \in Savers : SaveWrite(p)
  \/ \E p \in Savers : SaveLookup(p)
  \/ \E p \in Savers : SaveReturn(p)
  \/ \E p \in Savers : SaveCounterStore(p)

SpecSave == InitSave /\ [][NextSave]_vars

\* ------------------------------------------------ start-up: NewConfig
\* what a source gives for a setting it sets
SourceValue(src, k) == src \o ":" \o k

\* the settings a source may set: Address and BaseURL each on their own, the
\* other four string settings together
SettingGroups == {{"Address"}, {"BaseURL"}, {"FilePath", "DBPath", "TrustedSubnet", "GRPCAddress"}}
SettingChoices == {UNION g : g \in SUBSET SettingGroups}

SourceStrings(src) ==
  {[k \in StringSettings |-> IF k \in set THEN SourceValue(src, k) ELSE ""] :
     set \in SettingChoices}

InitConfig ==
  /\ backend = "file"
  /\ fileLog = <<>>
  /\ urls = {}
  /\ urlsSeq = 0
  /\ Counter = 1
  /\ genCount = 0
  /\ created = {}
  /\ marked = {}
  /\ createHist = [o \in Origs |-> <<>>]
  /\ lastOp = [op |-> "init"]
  /\ PipeIdle
  /\ SaversIdle
  /\ HandlersIdle
  /\ TwinIdle
  /\ \E e \in SourceStrings("env"), h \in {"", "true", "false"} :
       cfgEnv = e @@ [EnableHTTPS |-> h]
  /\ \E f \in SourceStrings("flag"), h \in BOOLEAN :
       cfgFlag = f @@ [EnableHTTPS |-> h]
  /\ \E f \in SourceStrings("file"), h \in BOOLEAN :
       cfgFile = f @@ [EnableHTTPS |-> h]
  /\ cfg = <<>>

NewConfigCall ==
  /\ cfg = <<>>
  /\ cfg' = <<NewConfig(cfgEnv, cfgFlag, cfgFile)>>
  /\ UNCHANGED <<reqVars, twin, storeVars, svcVars, pipeVars, saver, cfgEnv, cfgFlag, cfgFile>>

NextConfig == NewConfigCall

SpecConfig == InitConfig /\ [][NextConfig]_vars

\* ------------------------------------------------------------- claims
\* the stored records of either backend, as (shortURL, originalURL, owner, deleted)
StoredSeq(st) ==
  IF st.backend = "file"
    THEN [i \in 1..Len(st.fileLog) |->
            [ShortURL |-> st.fileLog[i].ShortURL, OriginalURL |-> st.fileLog[i].OriginalURL,
             UserUUID |-> st.fileLog[i].UserUUID, DeletedFlag |-> st.fileLog[i].DeletedFlag]]
    ELSE LET ids == {r.id : r \in st.urls}
             row(k) == CHOOSE r \in st.urls : Cardinality({q \in ids : q <= r.id}) = k
         IN  [k \in 1..Cardinality(ids) |->
                [ShortURL |-> row(k).short_url, OriginalURL |-> row(k).original_url,
                 UserUUID |-> row(k).user_id, DeletedFlag |-> row(k).deleted]]

GeneratedIDs == {generateID(n) : n \in 1..genCount}

\* C1: after any sequence of Save, MarkDeleted and read operations, on either
\* backend, no two stored records have the same originalURL.
C1_OneRecordPerOriginalURL ==
  LET recs == StoredSeq(Store)
  IN  \A i, j \in 1..Len(recs) : i # j => recs[i].OriginalURL # recs[j].OriginalURL

\* C2: two successive CreateShortURL calls with the same originalURL return the
\* same shortURL, and the second returns ErrorDuplicate with it.
C2_DedupIdempotence ==
  \A o \in Origs : \A i \in 2..Len(createHist[o]) :
    /\ createHist[o][i].short = createHist[o][i - 1].short
    /\ createHist[o][i].err = "ErrorDuplicate"

\* C3: for every record created by CreateShortURL or BatchShorten and not yet
\* marked deleted, GetShortURL on the short code returned at creation yields
\* exactly the originalURL supplied at creation, with no error.
C3_RoundTrip ==
  \A c \in created :
    c.ShortURL \notin marked =>
      GetShortURL(Store, c.id) = [orig |-> c.OriginalURL, err |-> "nil"]

C3_Witness ==
  /\ lastOp.op = "GetShortURL"
  /\ Cardinality(created) >= 2
  /\ \E c \in created :
       /\ c.ShortURL \notin marked
       /\ lastOp.shortID = c.id
       /\ lastOp.ret = [orig |-> c.OriginalURL, err |-> "nil"]

\* C4: once BatchUpdateDeleteFlag has completed for a short URL with the
\* ownerID that created it, every later GetShortURL on that code returns
\* ErrURLDeleted together with the record's original URL, on either backend.
C4_SoftDeleteGating ==
  \A c \in created :
    (c.ShortURL \in marked /\ lastOp.op = "GetShortURL" /\ lastOp.shortID = c.id)
      => lastOp.ret = [orig |-> c.OriginalURL, err |-> "ErrURLDeleted"]

\* the store after the step
StoreNext == [backend |-> backend', fileLog |-> fileLog', urls |-> urls', urlsSeq |-> urlsSeq']

\* owners of the stored records that carry shortURL
OwnersOf(st, shortURL) ==
  {StoredSeq(st)[i].UserUUID :
     i \in {k \in 1..Len(StoredSeq(st)) : StoredSeq(st)[k].ShortURL = shortURL}}

\* C6: BatchUpdateDeleteFlag(shortURL, ownerID) called with an ownerID different
\* from the record's owner changes nothing in the store, and a later
\* GetOriginalURL of that short URL answers as before (not deleted).
C6_OwnershipScoping ==
  [][(/\ lastOp'.op = "BatchUpdateDeleteFlag"
      /\ OwnersOf(Store, lastOp'.urlID) # {}
      /\ lastOp'.userID \notin OwnersOf(Store, lastOp'.urlID))
     => /\ StoredSeq(StoreNext) = StoredSeq(Store)
        /\ GetOriginalURL(StoreNext, lastOp'.urlID) = GetOriginalURL(Store, lastOp'.urlID)]_vars

\* C7: GetShortURL for a short code that was never created returns
\* ErrURLNotFound, on the log-backed and on the relational backend alike.
C7_NotFound ==
  (lastOp.op = "GetShortURL" /\ lastOp.shortID \notin GeneratedIDs)
    => lastOp.ret = [orig |-> "", err |-> "ErrURLNotFound"]

\* C9: a record whose deleted flag has become true (as seen by GetOriginalURL)
\* never has it false again, and no stored record is ever removed.
C9_DeletedIsOneWay ==
  [][/\ \A id \in RequestIDs :
          GetOriginalURL(Store, ShortURLOf(id)).deleted
            => GetOriginalURL(StoreNext, ShortURLOf(id)).deleted
     /\ \A i \in 1..Len(fileLog) :
          \E j \in 1..Len(fileLog') :
            [fileLog'[j] EXCEPT !.DeletedFlag = FALSE]
              = [fileLog[i] EXCEPT !.DeletedFlag = FALSE]
     /\ \A r \in urls :
          \E q \in urls' : [q EXCEPT !.deleted = FALSE] = [r EXCEPT !.deleted = FALSE]
     /\ Len(fileLog') >= Len(fileLog)
     /\ Cardinality(urls') >= Cardinality(urls)]_vars

C9_Witness ==
  /\ lastOp.op \in {"CreateShortURL", "BatchShorten"}
  /\ \E c \in created :
       /\ c.ShortURL \in marked
       /\ GetOriginalURL(Store, c.ShortURL).deleted

\* C10: BatchUpdateDeleteFlag returns no error when the record is already
\* deleted or not owned by the caller, and applying it twice with the same
\* (shortURL, ownerID) leaves the store as applying it once does.
C10_MarkDeletedIdempotent ==
  \A id \in RequestIDs, u \in Users :
    LET once == StoreBatchUpdateDeleteFlag(Store, ShortURLOf(id), u)
    IN  StoreBatchUpdateDeleteFlag(once, ShortURLOf(id), u) = once


\* C5: for any list of short codes all owned by the caller and any interleaving
\* of the workers, once processBatchDelete has finished, GetOriginalURL on each
\* of the codes returns deleted = true.
C5_PipelineDeletesAll ==
  (/\ sink.pc = "returned"
   /\ \A i \in 1..Len(pIds) :
        \E c \in created : c.ShortURL = pIds[i] /\ c.UserUUID = pUser)
    => \A i \in 1..Len(pIds) : GetOriginalURL(Store, pIds[i]).deleted


\* C8: when two or more SaveURLRecord calls for the same originalURL run
\* concurrently against one store, exactly one record with that originalURL
\* exists once they have all returned.
C8_ConcurrentSavesOneRecord ==
  \A o \in Origs :
    (/\ \A p \in Savers : saver[p].pc \in {"idle", "done"}
     /\ Cardinality({p \in Savers : saver[p].pc = "done" /\ saver[p].rec.OriginalURL = o}) >= 2)
      => Cardinality({i \in 1..Len(StoredSeq(Store)) : StoredSeq(Store)[i].OriginalURL = o}) = 1

\* C11: after a record has been marked deleted, a CreateShortURL with the same
\* originalURL creates no new record and does not reset the deleted flag: it
\* returns ErrorDuplicate with the deleted record's shortURL, and GetShortURL
\* on that code still returns ErrURLDeleted.
C11_NoResurrection ==
  \A c \in created :
    (/\ c.ShortURL \in marked
     /\ lastOp.op = "CreateShortURL"
     /\ lastOp.originalURL = c.OriginalURL)
      => /\ lastOp.err = "ErrorDuplicate"
         /\ lastOp.short = c.ShortURL
         /\ Cardinality({i \in 1..Len(StoredSeq(Store)) :
                           StoredSeq(Store)[i].OriginalURL = c.OriginalURL}) = 1
         /\ GetShortURL(Store, c.id) = [orig |-> c.OriginalURL, err |-> "ErrURLDeleted"]

\* C12: BatchShorten, when it returns without error, returns exactly one result
\* per input item, in input order, the i-th result carrying the i-th input's
\* correlationID.
C12_BatchOrder ==
  (lastOp.op = "BatchShorten" /\ lastOp.err = "nil")
    => /\ Len(lastOp.results) = Len(lastOp.requests)
       /\ \A i \in 1..Len(lastOp.requests) :
            lastOp.results[i].CorrelationID = lastOp.requests[i].CorrelationID

C12_Witness ==
  /\ lastOp.op = "BatchShorten"
  /\ lastOp.err = "nil"
  /\ Len(lastOp.requests) = 2
  /\ lastOp.requests[1].CorrelationID # lastOp.requests[2].CorrelationID
  /\ Len(lastOp.results) = 2
  /\ lastOp.results[1].CorrelationID = lastOp.requests[1].CorrelationID

C14_BatchAbortsOnFailure ==
  lastOp.op = "BatchShorten" =>
    \A k \in 1..Len(lastOp.saves) :
      lastOp.saves[k].err # "nil"
        => /\ lastOp.err = lastOp.saves[k].err
           /\ lastOp.results = <<>>
           /\ Len(lastOp.saves) = k

C14_Witness ==
  /\ lastOp.op = "BatchShorten"
  /\ Len(lastOp.requests) = 2
  /\ Len(lastOp.saves) = 1
  /\ lastOp.saves[1].err = "StorageFailure"
  /\ lastOp.err = "StorageFailure"
  /\ lastOp.results = <<>>

\* C15: triggering a batch deletion returns to the caller without waiting for
\* any BatchUpdateDeleteFlag call to run, and no outcome of the pipeline is ever
\* delivered to that caller: the return is possible in every state of the
\* pipeline, and what the caller got (202 Accepted) is changed by no step.
C15_AsyncTrigger ==
  /\ [](caller.pc = "async" => ENABLED BatchDeleteAsyncReturn)
  /\ [](caller.pc # "idle" => caller.status = 202)
  /\ [][caller' # caller =>
          (caller.pc = "async" /\ caller' = [pc |-> "returned", status |-> 202])]_vars

\* the caller has its answer, no BatchUpdateDeleteFlag call has started yet
C15_Witness ==
  /\ caller = [pc |-> "returned", status |-> 202]
  /\ Len(pIds) > NumWorkers
  /\ genIdx = 1
  /\ \A w \in Workers : worker[w].pc = "recv"
  /\ sink.pc = "range"

\* C16: GetUserURLs returns exactly the stored records whose owner is the given
\* one, each once as (shortURL, originalURL), soft-deleted ones included, after
\* any sequence of SaveURLRecord and BatchUpdateDeleteFlag operations.
C16_ListByOwner ==
  lastOp.op = "GetUserURLs" =>
    LET recs == StoredSeq(Store)
        mine == {[ShortURL |-> recs[i].ShortURL, OriginalURL |-> recs[i].OriginalURL] :
                   i \in {k \in 1..Len(recs) : recs[k].UserUUID = lastOp.userID}}
    IN  /\ Len(lastOp.records) = Cardinality(mine)
        /\ {lastOp.records[i] : i \in 1..Len(lastOp.records)} = mine

\* C17: every stored record has an id (the UUID field of the log entry, the id
\* column of the row) different from every other stored record's id, including
\* when creation calls run concurrently.
C17_UniqueRecordID ==
  /\ \A i, j \in 1..Len(fileLog) : i # j => fileLog[i].UUID # fileLog[j].UUID
  /\ \A r, q \in urls : r # q => r.id # q.id

\* the first of environment, flag, file and default that sets string setting k
ByPriority(k, default) ==
  IF cfgEnv[k] # "" THEN cfgEnv[k]
  ELSE IF cfgFlag[k] # "" THEN cfgFlag[k]
  ELSE IF cfgFile[k] # "" THEN cfgFile[k]
  ELSE default

\* C18: NewConfig resolves every setting by the priority environment variable >
\* command-line flag > configuration file > default value.  (For EnableHTTPS a
\* source that gives false is taken as leaving it unset.)
C18_ConfigPriority ==
  cfg # <<>> =>
    /\ cfg[1].Address = ByPriority("Address", "localhost:8080")
    /\ cfg[1].BaseURL = ByPriority("BaseURL", "http://" \o cfg[1].Address)
    /\ cfg[1].FilePath = ByPriority("FilePath", "URLstorage.json")
    /\ cfg[1].DBPath = ByPriority("DBPath", "")
    /\ cfg[1].GRPCAddress = ByPriority("GRPCAddress", "")
    /\ cfg[1].EnableHTTPS = (cfgEnv.EnableHTTPS = "true" \/ cfgFlag.EnableHTTPS
                               \/ cfgFile.EnableHTTPS)
    /\ cfg[1].TrustedSubnet = ByPriority("TrustedSubnet", "")

\* processBatchDelete has returned and every goroutine it started has ended
PipelineFinished ==
  /\ sink.pc = "returned"
  /\ inputCh = "closed"
  /\ \A w \in Workers : worker[w].pc = "done" /\ agg[w].pc = "done"
  /\ finalCh = "closed"
  /\ doneCh = "closed"

\* C19: for any finite list of short codes (empty, shorter than the 5 workers,
\* or longer), provided every BatchUpdateDeleteFlag call returns,
\* processBatchDelete eventually returns and the generator, the workers, the
\* fanIn goroutines and the closer have all terminated.
C19_PipelineTerminates == <>[]PipelineFinished

C19_Witness ==
  /\ PipelineFinished
  /\ Len(pIds) > NumWorkers
  /\ sink.got = Len(pIds)

\* occurrences of short URL u among the first n ids of the list
Occurrences(u, n) == Cardinality({i \in 1..n : pIds[i] = u})

\* C20: in one pipeline run each short code of the list is received by exactly
\* one worker and BatchUpdateDeleteFlag is called for it exactly once: never
\* more calls for a code than the generator has sent of it, and once
\* processBatchDelete has returned exactly as many as the list holds.
C20_ExactlyOnce ==
  \A u \in DOMAIN calls :
    /\ calls[u] + Cardinality({w \in Workers : worker[w].pc = "call" /\ worker[w].id = u})
         = Occurrences(u, genIdx - 1)
    /\ sink.pc = "returned" => calls[u] = Occurrences(u, Len(pIds))

C20_Witness ==
  /\ sink.pc = "returned"
  /\ Len(pIds) > NumWorkers
  /\ calls[pIds[1]] = Len(pIds)
  /\ \A w \in Workers : worker[w].pc = "done"

\* C21: finalCh is closed once, and only after every fanIn goroutine has
\* finished, which happens only after the worker's result channel has been
\* closed (the worker is done), which happens only after inputCh has been
\* closed; no goroutine is left about to send on a closed channel, and a
\* closed channel stays closed.
C21_CloseOrder ==
  /\ [](finalCh = "closed" => \A w \in Workers : agg[w].pc = "done")
  /\ [](\A w \in Workers : agg[w].pc = "done" => worker[w].pc = "done")
  /\ [](\A w \in Workers : worker[w].pc = "done" => inputCh = "closed")
  /\ [](inputCh = "closed" => genIdx > Len(pIds))
  /\ [][/\ finalCh = "closed" => finalCh' = "closed"
        /\ inputCh = "closed" => inputCh' = "closed"
        /\ \A w \in Workers : worker[w].pc = "done" => worker'[w].pc = "done"
        /\ finalCh' # finalCh => \A w \in Workers : agg[w].pc = "done"]_vars

\* finalCh has just been closed, the sink has every outcome and has not returned
C21_Witness ==
  /\ finalCh = "closed"
  /\ sink.pc = "range"
  /\ Len(pIds) = MaxIds
  /\ sink.got = Len(pIds)
  /\ \A w \in Workers : agg[w].pc = "done" /\ worker[w].pc = "done"

\* C22: doneCh is closed only after finalCh has been closed and the sink has
\* drained it, so in no step does the generator, a worker or a fanIn goroutine
\* leave through its done branch and drop a code or an outcome.
C22_DoneAfterDrain ==
  /\ [](doneCh = "closed" =>
          /\ finalCh = "closed"
          /\ sink.pc = "returned"
          /\ sink.got = Len(pIds)
          /\ genIdx > Len(pIds))
  /\ [][/\ (inputCh = "open" /\ inputCh' = "closed") => genIdx > Len(pIds)
        /\ \A w \in Workers :
             /\ worker[w].pc = "send" => worker'[w].pc # "done"
             /\ agg[w].pc = "send" => agg'[w].pc # "done"]_vars

C22_Witness ==
  /\ doneCh = "closed"
  /\ sink.pc = "returned"
  /\ Len(pIds) = MaxIds
  /\ sink.got = MaxIds
  /\ genIdx = MaxIds + 1

\* C23: a BatchUpdateDeleteFlag call that returns an error is neither retried
\* nor does it stop the pipeline: every code of the list is still processed,
\* each exactly once, and by the time finalCh is closed the sink has received
\* exactly one outcome per submitted code, the errors among them.
C23_ErrorsDoNotStop ==
  /\ sink.errs <= sink.got
  /\ \A u \in DOMAIN calls : calls[u] <= Occurrences(u, Len(pIds))
  /\ finalCh = "closed" =>
       /\ sink.got = Len(pIds)
       /\ \A u \in DOMAIN calls : calls[u] = Occurrences(u, Len(pIds))
       /\ FailuresSoFar = sink.errs

\* the first call failed, the list was processed to its end all the same
C23_Witness ==
  /\ finalCh = "closed"
  /\ Len(pIds) = MaxIds
  /\ sink.got = MaxIds
  /\ sink.errs >= 1
  /\ \E c \in created : c.ShortURL = pIds[MaxIds] /\ GetOriginalURL(Store, c.ShortURL).deleted

\* the BatchUpdateDeleteFlag calls that have started and not returned, over the
\* pipelines of all requests
CallsExecuting ==
  {<<r, w>> \in Requests \X Workers : run[r].worker[w].pc = "call"}

\* C24: at any moment at most 5 BatchUpdateDeleteFlag calls are executing
\* against the store, however many batch deletions have been triggered and are
\* still running.
C24_AtMostFiveCalls == Cardinality(CallsExecuting) <= NumWorkers

\* C30: when AuthGet returns an error, BatchDeleteHandler answers 401 and starts
\* no deletion pipeline for the request: no BatchUpdateDeleteFlag call is made
\* for it.
C30_NoPipelineOnAuthFailure ==
  \A r \in Requests :
    (handler[r].pc = "returned" /\ AuthGet(handler[r].cookie).err # "nil") =>
      /\ handler[r].status = 401
      /\ ~run[r].started
      /\ \A w \in Workers : run[r].worker[w].pc # "call"

\* C26: on FileStore a BatchUpdateDeleteFlag(shortURL, ownerID) call leaves the
\* log with the same entries in the same order, the only difference being that
\* DeletedFlag of each entry whose ShortURL and UserUUID both match is now true.
C26_MarkDeletedFrame ==
  [][(backend = "file" /\ lastOp'.op = "BatchUpdateDeleteFlag") =>
       fileLog' = [i \in 1..Len(fileLog) |->
                     IF /\ fileLog[i].ShortURL = lastOp'.urlID
                        /\ fileLog[i].UserUUID = lastOp'.userID
                       THEN [fileLog[i] EXCEPT !.DeletedFlag = TRUE]
                       ELSE fileLog[i]]]_vars

SuccessfulSaves(o) ==
  IF o.op = "CreateShortURL" THEN (IF o.err = "nil" THEN 1 ELSE 0)
  ELSE IF o.op = "BatchShorten"
    THEN Cardinality({i \in 1..Len(o.saves) : o.saves[i].err = "nil"})
    ELSE 0

\* C27: after any sequence of operations GetURLsCount is the number of
\* creations that succeeded without ErrorDuplicate so far and GetUsersCount the
\* number of distinct owners of those records: both are 0 at the start, every
\* operation adds its successful saves to the first and a new owner, if the
\* saving user had no record, to the second; BatchUpdateDeleteFlag and the read
\* operations change neither, and GetStats returns the two.
C27_Counts ==
  /\ [](lastOp.op = "init" =>
          GetStatsResult(Store).urlsCount = 0 /\ GetStatsResult(Store).usersCount = 0)
  /\ [](lastOp.op = "GetStats" =>
          /\ lastOp.urlsCount = GetStatsResult(Store).urlsCount
          /\ lastOp.usersCount = GetStatsResult(Store).usersCount)
  /\ [][/\ GetStatsResult(Store).urlsCount' =
             GetStatsResult(Store).urlsCount + SuccessfulSaves(lastOp')
        /\ GetStatsResult(Store).usersCount' =
             GetStatsResult(Store).usersCount +
               (IF /\ SuccessfulSaves(lastOp') > 0
                   /\ \A i \in 1..Len(StoredSeq(Store)) :
                        StoredSeq(Store)[i].UserUUID # lastOp'.userID
                  THEN 1 ELSE 0)]_vars

\* C28: when owner B's CreateShortURL gets ErrorDuplicate for an originalURL
\* first saved by owner A, the record stays owned by A: it is not in B's
\* GetUserURLs, a BatchUpdateDeleteFlag by B on its short URL leaves
\* GetOriginalURL of it as it was, and after any later operation every record
\* is owned by the user whose creation stored it and a user who does not own it
\* neither changes nor lists it.
C28_DuplicateKeepsOwner ==
  /\ [][(lastOp'.op = "CreateShortURL" /\ lastOp'.err = "ErrorDuplicate") =>
          LET s == lastOp'.short
              B == lastOp'.userID
          IN  /\ OwnersOf(Store, s) # {}
              /\ OwnersOf(StoreNext, s) = OwnersOf(Store, s)
              /\ B \notin OwnersOf(Store, s) =>
                   /\ \A l \in GetUserURLsResults(StoreNext, B) :
                        \A i \in 1..Len(l) : l[i].ShortURL # s
                   /\ GetOriginalURL(StoreBatchUpdateDeleteFlag(StoreNext, s, B), s)
                        = GetOriginalURL(StoreNext, s)]_vars
  /\ [](\A c \in created : OwnersOf(Store, c.ShortURL) = {c.UserUUID})
  /\ [][(/\ lastOp'.op = "BatchUpdateDeleteFlag"
         /\ lastOp'.userID \notin OwnersOf(Store, lastOp'.urlID)) =>
          GetOriginalURL(StoreNext, lastOp'.urlID) = GetOriginalURL(Store, lastOp'.urlID)]_vars
  /\ [](lastOp.op = "GetUserURLs" =>
          \A i \in 1..Len(lastOp.records) :
            lastOp.userID \in OwnersOf(Store, lastOp.records[i].ShortURL))

\* u2 has just got ErrorDuplicate and the short URL of a record that u1 owns
C28_Witness ==
  /\ lastOp.op = "CreateShortURL"
  /\ lastOp.err = "ErrorDuplicate"
  /\ lastOp.userID = "u2"
  /\ OwnersOf(Store, lastOp.short) = {"u1"}
  /\ ~GetOriginalURL(Store, lastOp.short).deleted

\* C29: FileStore and DBStore are interchangeable behind URLStore: after any
\* sequence of SaveURLRecord, GetOriginalURL, GetUserURLs and
\* BatchUpdateDeleteFlag calls made on both, a call returns the same on both
\* (same short URL, same ErrorDuplicate and not-found signals, same deleted
\* flags; for GetUserURLs, what FileStore returns is one of the arrangements
\* DBStore may return).
C29_BackendsAgree == twin.file_ret \subseteq twin.db_ret

====
